---- MODULE Spec2Model ----
(***************************************************************************)
(* A model of rw2toexr.py: the ConversionThread worker (run, convert_single,*)
(* batch_convert, rw2_to_exr) and the RW2ToEXRApp handlers that start it,   *)
(* cancel it and receive its signals.                                       *)
(*                                                                          *)
(* Strings are sequences of one-character strings, so that the path         *)
(* operations of pathlib / os.path (parsing, name, stem, suffix, joining,   *)
(* dirname, glob matching) and the f-string formatting of the messages are  *)
(* computed the way the interpreter computes them.                          *)
(***************************************************************************)
EXTENDS Integers, Sequences, FiniteSets, TLC

\* F(x), with x computed once before it is used
With(x, F(_)) == CHOOSE r \in {F(v) : v \in {x}} : TRUE

(***************************************************************************)
(* Text                                                                     *)
(***************************************************************************)
SEP == "/"

DOT == "."

\* '.exr', the suffix of every output the worker derives (lines 37, 41, 68)
EXR == <<".", "e", "x", "r">>

\* the two glob patterns of batch_convert (line 58)
PAT_UPPER == <<"*", ".", "R", "W", "2">>

PAT_LOWER == <<"*", ".", "r", "w", "2">>

\* str.rfind(c), 1-based: the last index of c in s, 0 when there is none
RFind(s, c) ==
    With(s, LAMBDA t : With({k \in 1..Len(t) : t[k] = c}, LAMBDA I :
        IF I = {} THEN 0 ELSE CHOOSE k \in I : \A j \in I : j <= k))

\* str.find(c), 1-based: the first index of c in s, 0 when there is none
Find(s, c) ==
    With(s, LAMBDA t : With({k \in 1..Len(t) : t[k] = c}, LAMBDA I :
        IF I = {} THEN 0 ELSE CHOOSE k \in I : \A j \in I : k <= j))

\* s.split('/')
RECURSIVE Split(_)
Split(s) ==
    With(s, LAMBDA t : With(Find(t, SEP), LAMBDA k :
        IF k = 0 THEN <<t>>
        ELSE <<SubSeq(t, 1, k - 1)>> \o Split(SubSeq(t, k + 1, Len(t)))))

\* '/'.join(parts)
RECURSIVE Join(_)
Join(parts) ==
    With(parts, LAMBDA q :
        IF Len(q) = 0 THEN <<>>
        ELSE IF Len(q) = 1 THEN q[1]
        ELSE q[1] \o <<SEP>> \o Join(Tail(q)))

\* the case folding re.IGNORECASE applies, on the letters file names use here
Lower(c) ==
    CASE c = "R" -> "r"
      [] c = "W" -> "w"
      [] c = "E" -> "e"
      [] c = "X" -> "x"
      [] OTHER -> c

\* needle occurs in hay as a contiguous run (Python's `needle in hay`)
Contains(hay, needle) ==
    \E k \in 0..(Len(hay) - Len(needle)) :
        SubSeq(hay, k + 1, k + Len(needle)) = needle

(***************************************************************************)
(* pathlib.Path, as PurePosixPath parses and prints it                      *)
(***************************************************************************)
IsPart(x) == x # <<>> /\ x # <<DOT>>

\* Path(s): empty and '.' components are dropped, a leading '/' is the root
Path(s) ==
    With(s, LAMBDA t :
        [abs   |-> Len(t) > 0 /\ t[1] = SEP,
         parts |-> SelectSeq(Split(t), IsPart)])

\* str(path)
Str(p) ==
    With(p, LAMBDA q :
        IF q.parts = <<>>
        THEN (IF q.abs THEN <<SEP>> ELSE <<DOT>>)
        ELSE (IF q.abs THEN <<SEP>> ELSE <<>>) \o Join(q.parts))

\* path.name
Name(p) ==
    With(p, LAMBDA q : IF q.parts = <<>> THEN <<>> ELSE q.parts[Len(q.parts)])

\* path.suffix, on the name: name[i:] when the last '.' is neither the first nor
\* the last character
Suffix(name) ==
    With(name, LAMBDA n : With(RFind(n, DOT), LAMBDA j :
        IF 1 < j /\ j < Len(n) THEN SubSeq(n, j, Len(n)) ELSE <<>>))

\* path.stem, on the name
Stem(name) ==
    With(name, LAMBDA n : With(RFind(n, DOT), LAMBDA j :
        IF 1 < j /\ j < Len(n) THEN SubSeq(n, 1, j - 1) ELSE n))

\* path.parent
Parent(p) ==
    With(p, LAMBDA q :
        IF q.parts = <<>> THEN q
        ELSE [q EXCEPT !.parts = SubSeq(@, 1, Len(@) - 1)])

\* path / name, for a name that is one relative component
Child(p, name) == [p EXCEPT !.parts = @ \o <<name>>]

\* path.with_suffix(suffix): ValueError when the path has an empty name;
\* otherwise the old suffix, if there is one, is cut off the name and the new
\* one is appended
WithSuffix(p, suffix) ==
    With(p, LAMBDA q : With(Name(q), LAMBDA name : With(Suffix(name), LAMBDA old :
        LET new == IF old = <<>> THEN name \o suffix
                   ELSE SubSeq(name, 1, Len(name) - Len(old)) \o suffix
        IN  IF name = <<>>
            THEN [ok |-> FALSE, path |-> q]
            ELSE [ok |-> TRUE, path |-> [q EXCEPT !.parts[Len(q.parts)] = new]])))

\* os.path.dirname(s): everything before the last '/', without trailing slashes
\* unless it is all slashes
Dirname(s) ==
    With(SubSeq(s, 1, RFind(s, SEP)), LAMBDA head :
        LET k == IF \A x \in 1..Len(head) : head[x] = SEP THEN Len(head)
                 ELSE CHOOSE x \in 1..Len(head) :
                          /\ head[x] # SEP
                          /\ \A y \in (x + 1)..Len(head) : head[y] = SEP
        IN  SubSeq(head, 1, k))

\* fnmatch of a name against a pattern '*<tail>', as pathlib compiles it:
\* case-sensitively on POSIX, with re.IGNORECASE on Windows
FnMatch(name, pat, case_sens) ==
    With(name, LAMBDA n : With(Tail(pat), LAMBDA tail :
        LET off == Len(n) - Len(tail)
        IN  /\ off >= 0
            /\ \A k \in 1..Len(tail) :
                  IF case_sens THEN n[off + k] = tail[k]
                  ELSE Lower(n[off + k]) = Lower(tail[k])))

(***************************************************************************)
(* Python floats: IEEE 754 binary64 with round-to-nearest-even, as the      *)
(* expression int((i+1)/total_files*100) of line 70 uses them.  A positive  *)
(* float is [m, e]: m its 53 significand bits, most significant first, and  *)
(* its value is m * 2^e.                                                    *)
(***************************************************************************)
\* the width of a binary64 significand
MANT == 53

\* the width of the limbs a significand is cut into to be multiplied
LIMB == 18

\* the value of a bit string, most significant bit first
RECURSIVE BitsToInt(_)
BitsToInt(b) ==
    With(b, LAMBDA v :
        IF Len(v) = 0 THEN 0
        ELSE IF Len(v) = 1 THEN v[1]
        ELSE LET h == Len(v) \div 2
             IN  BitsToInt(SubSeq(v, 1, h)) * 2^(Len(v) - h)
                   + BitsToInt(SubSeq(v, h + 1, Len(v))))

\* the `width` low bits of v, most significant bit first
IntToBits(v, width) == [k \in 1..width |-> (v \div 2^(width - k)) % 2]

\* the number of bits of v > 0
BitWidth(v) == CHOOSE w \in 1..30 : 2^(w - 1) <= v /\ v < 2^w

\* b + 1 on a bit string, most significant bit first (one bit longer on overflow)
IncBits(b) ==
    With({k \in 1..Len(b) : b[k] = 0}, LAMBDA Z :
        With(IF Z = {} THEN 0 ELSE CHOOSE k \in Z : \A z \in Z : z <= k, LAMBDA j :
            [k \in 1..(IF j = 0 THEN Len(b) + 1 ELSE Len(b)) |->
                IF j = 0 THEN (IF k = 1 THEN 1 ELSE 0)
                ELSE IF k < j THEN b[k] ELSE IF k = j THEN 1 ELSE 0]))

\* 2^k mod n
RECURSIVE Pow2Mod(_, _)
Pow2Mod(k, n) ==
    IF k = 0 THEN 1 % n
    ELSE With(Pow2Mod(k \div 2, n), LAMBDA h :
             (((h * h) % n) * (IF k % 2 = 1 THEN 2 ELSE 1)) % n)

\* the next `count` quotient bits of r/n (r < n), and the remainder left
DivBits(r, n, count) ==
    [bits |-> [k \in 1..count |->
                  IF 2 * ((r * Pow2Mod(k - 1, n)) % n) >= n THEN 1 ELSE 0],
     rem  |-> (r * Pow2Mod(count, n)) % n]

\* b * c, exactly, for a MANT-bit string b and a small c: b is cut into three
\* limbs, each multiplied with the carry of the one below
MulBits(b, c) ==
    With(BitsToInt(SubSeq(b, MANT - LIMB + 1, MANT)) * c, LAMBDA t0 :
    With(BitsToInt(SubSeq(b, MANT - 2 * LIMB + 1, MANT - LIMB)) * c
            + t0 \div 2^LIMB, LAMBDA t1 :
    With(BitsToInt(SubSeq(b, 1, MANT - 2 * LIMB)) * c + t1 \div 2^LIMB, LAMBDA t2 :
        IntToBits(t2, BitWidth(t2)) \o IntToBits(t1 % 2^LIMB, LIMB)
            \o IntToBits(t0 % 2^LIMB, LIMB))))

\* an exact value bits * 2^e (leading bit 1, at least MANT bits; `sticky` says
\* that non-zero digits follow the bits given) rounded to nearest, ties to even
RoundFloat(bits, e, sticky) ==
    With(SubSeq(bits, 1, MANT), LAMBDA keep :
    With(SubSeq(bits, MANT + 1, Len(bits)), LAMBDA rest :
        LET guard == Len(rest) > 0 /\ rest[1] = 1
            tail  == sticky \/ \E k \in 2..Len(rest) : rest[k] = 1
            up    == guard /\ (tail \/ keep[MANT] = 1)
            shift == Len(rest)
        IN  With(IF up THEN IncBits(keep) ELSE keep, LAMBDA m :
                IF Len(m) > MANT
                THEN [m |-> SubSeq(m, 1, MANT), e |-> e + shift + 1]
                ELSE [m |-> m, e |-> e + shift])))

\* the least k with a * 2^k >= n
NormShift(a, n) == CHOOSE k \in 0..30 : a * 2^k >= n /\ (k = 0 \/ a * 2^(k - 1) < n)

\* float(a) / float(n) for integers 1 <= a <= n
FloatDiv(a, n) ==
    With(NormShift(a, n), LAMBDA k :
    With(DivBits(a * 2^k - n, n, MANT), LAMBDA q :
        RoundFloat(<<1>> \o q.bits, -k - MANT, q.rem > 0)))

\* f * c for a small positive integer c
FloatMul(f, c) ==
    With(f, LAMBDA g : With(MulBits(g.m, c), LAMBDA p : RoundFloat(p, g.e, FALSE)))

\* int(f): truncation, for a positive float below 2^30
FloatToInt(f) ==
    With(f, LAMBDA g :
        IF g.e >= 0 THEN BitsToInt(g.m) * 2^g.e
        ELSE IF -g.e >= MANT THEN 0
        ELSE BitsToInt(SubSeq(g.m, 1, MANT + g.e)))

\* int(i/total_files*100): the index not advanced by one
PercentFromZero(i, total_files) ==
    IF i = 0 THEN 0
    ELSE FloatToInt(FloatMul(FloatDiv(i, total_files), 100))

\* int((i+1)/total_files*100), line 70
Percent(i, total_files) == FloatToInt(FloatMul(FloatDiv(i + 1, total_files), 100))

(***************************************************************************)
(* Message formatting (f-strings): str(int) and concatenation              *)
(***************************************************************************)
DigitChar(d) == <<"0", "1", "2", "3", "4", "5", "6", "7", "8", "9">>[d + 1]

\* str(n) for 0 <= n < 1000
IntToStr(n) ==
    IF n < 10 THEN <<DigitChar(n)>>
    ELSE IF n < 100 THEN <<DigitChar(n \div 10), DigitChar(n % 10)>>
    ELSE <<DigitChar(n \div 100), DigitChar((n \div 10) % 10), DigitChar(n % 10)>>

\* line 45
MsgConverting(name) == <<"Converting ">> \o name \o <<"...">>

\* line 48
MsgConverted(output_file) == <<"Successfully converted to ">> \o Str(output_file)

\* lines 30 and 50 without their prefix
MsgErrorBare(text) == text

\* lines 30 and 50
MsgError(text) == <<"Error: ">> \o text

\* line 28
MsgCompleted == <<"Conversion completed successfully!">>

\* line 61
MsgNoFiles(input_dir) == <<"No RW2 files found in ">> \o Str(input_dir)

\* line 71
MsgBatch(i, total_files, name) ==
    <<"Converting ">> \o IntToStr(i + 1) \o <<"/">> \o IntToStr(total_files)
        \o <<": ">> \o name

\* line 99 without the file name
MsgFailedNoName(input_path, reason) == <<"Failed to convert ">> \o <<": ">> \o reason

\* line 99
MsgFailed(input_path, reason) ==
    <<"Failed to convert ">> \o Name(Path(input_path)) \o <<": ">> \o reason

\* str() of the ValueError with_suffix raises on an empty name
MsgEmptyName(p) == <<"PosixPath('">> \o Str(p) \o <<"') has an empty name">>

\* str() of the OSErrors of mkdir / makedirs
MsgOSError(errno, s) == <<errno, ": '">> \o s \o <<"'">>

ProgressEvent(value, message) ==
    [type |-> "progress", percent |-> value, message |-> message]

CompletionEvent(succeeded, message) ==
    [type |-> "finished", success |-> succeeded, message |-> message]

(***************************************************************************)
(* The file system: `tree` lists its entries in the order scandir yields    *)
(* them.  The root and the current directory always exist.                  *)
(***************************************************************************)
IsDir(t, p) ==
    With(t, LAMBDA t1 : With(p, LAMBDA p1 :
        \/ p1.parts = <<>>
        \/ \E k \in 1..Len(t1) : t1[k].path = p1 /\ t1[k].is_dir))

IsFile(t, p) ==
    With(t, LAMBDA t1 : With(p, LAMBDA p1 :
        \E k \in 1..Len(t1) : t1[k].path = p1 /\ ~t1[k].is_dir))

\* the directories above p, outermost first
Ancestors(p) ==
    [k \in 1..(Len(p.parts) - 1) |-> [p EXCEPT !.parts = SubSeq(@, 1, k)]]

\* mkdir(parents=True, exist_ok=True) / os.makedirs(exist_ok=True) of p;
\* `permitted` is whether the system lets a missing directory be created
MakeDirs(t, p, permitted) ==
    With(t, LAMBDA t1 : With(p, LAMBDA p1 : With(Ancestors(p1), LAMBDA up :
        LET IsNew(q) == ~IsDir(t1, q)
            fresh    == SelectSeq(up \o <<p1>>, IsNew)
        IN  IF IsDir(t1, p1)
            THEN [ok |-> TRUE, err |-> <<>>, tree |-> t1]
            ELSE IF IsFile(t1, p1)
            THEN [ok |-> FALSE, tree |-> t1,
                  err |-> MsgOSError("[Errno 17] File exists", Str(p1))]
            ELSE IF \E k \in 1..Len(up) : IsFile(t1, up[k])
            THEN [ok |-> FALSE, tree |-> t1,
                  err |-> MsgOSError("[Errno 20] Not a directory", Str(p1))]
            ELSE IF ~permitted
            THEN [ok |-> FALSE, tree |-> t1,
                  err |-> MsgOSError("[Errno 13] Permission denied", Str(p1))]
            ELSE [ok |-> TRUE, err |-> <<>>,
                  tree |-> t1 \o [k \in 1..Len(fresh) |->
                                     [path |-> fresh[k], is_dir |-> TRUE]]])))

\* the file p exists after a write to it
AddFile(t, p) ==
    With(t, LAMBDA t1 : With(p, LAMBDA p1 :
        IF IsFile(t1, p1) THEN t1 ELSE Append(t1, [path |-> p1, is_dir |-> FALSE])))

\* list(dir.glob(pat)), line 58: the children of dir whose name matches, in
\* scandir order; nothing when dir is no directory
Glob(t, dir, pat, case_sens) ==
    With(t, LAMBDA t1 : With(dir, LAMBDA d :
        LET Hit(e) == /\ e.path.parts # <<>>
                      /\ Parent(e.path) = d
                      /\ FnMatch(Name(e.path), pat, case_sens)
        IN  With(SelectSeq(t1, Hit), LAMBDA hits :
                IF IsDir(t1, d) THEN [k \in 1..Len(hits) |-> hits[k].path]
                ELSE <<>>)))

(***************************************************************************)
(* rw2_to_exr, lines 75-99.  The decoder and the encoder are outside the    *)
(* program: `decodes` is whether rawpy can decode an existing input,        *)
(* `permitted` whether a missing directory may be created, `encoder` is     *)
(* "ok", "open" (OutputFile fails, nothing written) or "write" (writePixels *)
(* fails, the file is left behind).  In the result, `opened` is whether     *)
(* OutputFile created or truncated the output file, `written` whether all   *)
(* of it was written.                                                       *)
(***************************************************************************)
rw2_to_exr(t, input_path, output_path, decodes, permitted, encoder) ==
    With(Dirname(output_path), LAMBDA dir :
    With(MakeDirs(t, Path(dir), permitted), LAMBDA mk :
    With(Path(output_path), LAMBDA out :
        IF ~IsFile(t, Path(input_path))
        THEN [ok |-> FALSE, tree |-> t, opened |-> FALSE, written |-> FALSE,
              msg |-> MsgFailed(input_path, <<"LibRawIOError">>)]
        ELSE IF ~decodes
        THEN [ok |-> FALSE, tree |-> t, opened |-> FALSE, written |-> FALSE,
              msg |-> MsgFailed(input_path, <<"LibRawFileUnsupportedError">>)]
        ELSE IF dir = <<>>
        THEN [ok |-> FALSE, tree |-> t, opened |-> FALSE, written |-> FALSE,
              msg |-> MsgFailed(input_path,
                         MsgOSError("[Errno 2] No such file or directory", <<>>))]
        ELSE IF ~mk.ok
        THEN [ok |-> FALSE, tree |-> mk.tree, opened |-> FALSE, written |-> FALSE,
              msg |-> MsgFailed(input_path, mk.err)]
        ELSE IF IsDir(mk.tree, out) \/ encoder = "open"
        THEN [ok |-> FALSE, tree |-> mk.tree, opened |-> FALSE, written |-> FALSE,
              msg |-> MsgFailed(input_path, <<"Cannot open image file">>)]
        ELSE IF encoder = "write"
        THEN [ok |-> FALSE, tree |-> AddFile(mk.tree, out), opened |-> TRUE,
              written |-> FALSE,
              msg |-> MsgFailed(input_path, <<"Cannot write pixels">>)]
        ELSE [ok |-> TRUE, tree |-> AddFile(mk.tree, out), opened |-> TRUE,
              written |-> TRUE, msg |-> <<>>])))

EncoderOutcomes == {"ok", "open", "write"}

(***************************************************************************)
(* Path resolution and discovery                                           *)
(***************************************************************************)
\* lines 39-43 without the is_dir test: a given output is always taken as a file
ResolveSingleNoDir(t, input_path, output_path) ==
    IF output_path = <<>>
    THEN WithSuffix(Path(input_path), EXR)
    ELSE [ok |-> TRUE, path |-> Path(output_path)]

\* line 40 testing `not is_file()` instead of is_dir(): a given output that does
\* not exist yet is taken as a directory
ResolveSingleNotFile(t, input_path, output_path) ==
    LET input_file == Path(input_path)
        given      == Path(output_path)
    IN  IF output_path = <<>>
        THEN WithSuffix(input_file, EXR)
        ELSE IF ~IsFile(t, given)
        THEN [ok |-> TRUE, path |-> Child(given, Stem(Name(input_file)) \o EXR)]
        ELSE [ok |-> TRUE, path |-> given]

\* convert_single, lines 33-43: the output file of a single-mode job, or the
\* ValueError of with_suffix
ResolveSingle(t, input_path, output_path) ==
    LET input_file == Path(input_path)
        given      == Path(output_path)
    IN  IF output_path = <<>>
        THEN WithSuffix(input_file, EXR)
        ELSE IF IsDir(t, given)
        THEN [ok |-> TRUE, path |-> Child(given, Stem(Name(input_file)) \o EXR)]
        ELSE [ok |-> TRUE, path |-> given]

\* batch_convert, line 55
OutputDir(input_path, output_path) ==
    IF output_path # <<>> THEN Path(output_path) ELSE Path(input_path)

\* batch_convert, line 58
Discover(t, input_dir, case_sens) ==
    Glob(t, input_dir, PAT_UPPER, case_sens) \o Glob(t, input_dir, PAT_LOWER, case_sens)

\* batch_convert, line 68
BatchOutput(output_dir, input_file) ==
    Child(output_dir, Stem(Name(input_file)) \o EXR)

(***************************************************************************)
(* State                                                                    *)
(***************************************************************************)
VARIABLES
    tree,             \* the file system
    case_sens,        \* the platform: whether pathlib globs case-sensitively
    convert_btn,      \* RW2ToEXRApp.convert_btn.isEnabled()
    cancel_btn,       \* RW2ToEXRApp.cancel_btn.isEnabled()
    progress_visible, \* RW2ToEXRApp.progress.isVisible()
    progress_value,   \* RW2ToEXRApp.progress.value()
    status_label,     \* RW2ToEXRApp.status_label.text()
    thread,           \* RW2ToEXRApp.conversion_thread is not None
    input_path,       \* ConversionThread.input_path
    output_path,      \* ConversionThread.output_path
    is_batch,         \* ConversionThread.is_batch
    cancel_requested, \* ConversionThread.cancel_requested
    pc,               \* where the worker is in run()
    rw2_files,        \* batch_convert's rw2_files
    i,                \* batch_convert's loop index
    output_file,      \* the output_file of convert_single / batch_convert
    exc,              \* str() of the exception that is propagating
    events,           \* the signals the current worker has emitted, in order
    ndelivered,       \* how many of them the GUI thread has handled
    calls,            \* the calls of rw2_to_exr the current worker has made
    njobs,            \* how many workers have been started
    ncancels          \* how many times cancel_conversion ran since the last start

vars == <<tree, case_sens, convert_btn, cancel_btn, progress_visible,
          progress_value, status_label, thread, input_path, output_path,
          is_batch, cancel_requested, pc, rw2_files, i, output_file, exc,
          events, ndelivered, calls, njobs, ncancels>>

env == <<tree, case_sens>>

gui == <<convert_btn, cancel_btn, progress_visible, progress_value, status_label>>

job == <<thread, input_path, output_path, is_batch, njobs>>

\* what only the GUI thread's handlers of the Cancel button touch
clicks == <<ncancels>>

locals == <<rw2_files, i, output_file, exc>>

(***************************************************************************)
(* Bounds and the inputs tried                                              *)
(***************************************************************************)
\* how many raw candidates the input directory holds at most
MaxFiles == 2

\* how many emitted signals may wait for the GUI thread
MaxQueue == 3

\* the size of the largest long batch
MaxBatch == 100

\* how many times cancel_conversion is invoked for one worker at most
MaxCancels == 2

\* how many jobs are started one after the other at most
MaxJobs == 2

D_IN == <<"/", "i">>

D_OUT == <<"/", "o">>

D_EXR == <<"/", "p", ".", "e", "x", "r">>

D_NEW == <<"/", "q">>

F_UPPER == <<"/", "i", "/", "a", ".", "R", "W", "2">>

F_LOWER == <<"/", "i", "/", "a", ".", "r", "w", "2">>

F_MIXED == <<"/", "i", "/", "b", ".", "R", "w", "2">>

F_TEXT == <<"/", "i", "/", "n", ".", "t", "x", "t">>

F_NESTED == <<"/", "i", "/", "s", "/", "c", ".", "r", "w", "2">>

F_REL == <<"r", ".", "r", "w", "2">>

F_NEWOUT == <<"/", "q", "/", "z", ".", "e", "x", "r">>

F_RELOUT == <<"z", ".", "e", "x", "r">>

Entry(s, d) == [path |-> Path(s), is_dir |-> d]

\* what every file system tried holds: the input directory with a text file and
\* a subdirectory holding a raw file, two directories that can be outputs, and
\* a raw file in the current directory
BaseTree ==
    <<Entry(D_IN, TRUE), Entry(F_TEXT, FALSE), Entry(D_IN \o <<"/", "s">>, TRUE),
      Entry(F_NESTED, FALSE), Entry(D_OUT, TRUE), Entry(D_EXR, TRUE),
      Entry(F_REL, FALSE)>>

RawCandidates == {F_UPPER, F_LOWER, F_MIXED}

\* the sequences without repetition over S of length at most n
RECURSIVE Arrangements(_, _)
Arrangements(S, n) ==
    IF n = 0 THEN {<<>>}
    ELSE {<<>>} \cup {<<e>> \o rest : e \in S, rest \in Arrangements(S, n - 1)}

NoRepeat(q) == \A a, b \in 1..Len(q) : a # b => q[a] # q[b]

\* a case-insensitive platform holds no two names that differ by case only
NoCaseClash(q) ==
    \A a, b \in 1..Len(q) :
        a # b => [k \in 1..Len(q[a]) |-> Lower(q[a][k])]
                   # [k \in 1..Len(q[b]) |-> Lower(q[b][k])]

InputTexts == {<<>>, <<DOT>>, D_IN, F_UPPER, F_REL}

\* the input texts tried when several jobs follow each other
JobTexts == {<<>>, D_IN, F_UPPER}

OutputTexts == {<<>>, D_OUT, D_EXR, D_NEW, F_NEWOUT, F_TEXT, F_RELOUT}

\* the name of the k-th file of a long batch: f<k>.rw2
LongName(k) == D_IN \o <<"/", "f">> \o IntToStr(k) \o <<".", "r", "w", "2">>

LongSizes == {1, 2, MaxBatch \div 2, MaxBatch - 1, MaxBatch}

NoPath == [abs |-> FALSE, parts |-> <<>>]

(***************************************************************************)
(* Init: RW2ToEXRApp.__init__, lines 103-167                                *)
(***************************************************************************)
InitApp ==
    /\ convert_btn = TRUE
    /\ cancel_btn = FALSE
    /\ progress_visible = FALSE
    /\ progress_value = 0
    /\ status_label = <<"Ready">>
    /\ thread = FALSE
    /\ input_path = <<>>
    /\ output_path = <<>>
    /\ is_batch = FALSE
    /\ cancel_requested = FALSE
    /\ pc = "none"
    /\ rw2_files = <<>>
    /\ i = 0
    /\ output_file = NoPath
    /\ exc = <<>>
    /\ events = <<>>
    /\ ndelivered = 0
    /\ calls = <<>>
    /\ njobs = 0
    /\ ncancels = 0

Init ==
    /\ case_sens \in BOOLEAN
    /\ \E q \in Arrangements(RawCandidates, MaxFiles) :
          /\ NoRepeat(q)
          /\ case_sens \/ NoCaseClash(q)
          /\ tree = BaseTree \o [k \in 1..Len(q) |-> Entry(q[k], FALSE)]
    /\ InitApp

\* a long batch: n raw files f1.rw2 .. fn.rw2 in the input directory (a platform
\* that globs case-insensitively lists each under both patterns, 2n units)
InitLong ==
    /\ case_sens \in BOOLEAN
    /\ \E n \in LongSizes :
          /\ case_sens \/ 2 * n < MaxBatch
          /\ tree = <<Entry(D_IN, TRUE)>> \o [k \in 1..n |-> Entry(LongName(k), FALSE)]
    /\ InitApp

(***************************************************************************)
(* The GUI thread                                                           *)
(***************************************************************************)
\* QThread.isRunning()
IsRunning == pc \notin {"none", "done"}

\* lines 198-217 with the worker object reused: its cancel_requested is not
\* set anew
start_conversion_reuses(limit, text_in, text_out, batch) ==
    /\ convert_btn
    /\ njobs < limit
    /\ IF text_in = <<>>
       THEN UNCHANGED vars
       ELSE /\ convert_btn' = FALSE
            /\ cancel_btn' = TRUE
            /\ progress_visible' = TRUE
            /\ progress_value' = 0
            /\ thread' = TRUE
            /\ input_path' = text_in
            /\ output_path' = text_out
            /\ is_batch' = batch
            /\ pc' = "run"
            /\ rw2_files' = <<>>
            /\ i' = 0
            /\ output_file' = NoPath
            /\ exc' = <<>>
            /\ events' = <<>>
            /\ ndelivered' = 0
            /\ calls' = <<>>
            /\ njobs' = njobs + 1
            /\ ncancels' = 0
            /\ UNCHANGED <<env, status_label, cancel_requested>>

\* start_conversion, lines 198-217, on a click of the enabled Convert button
\* with the texts and the mode the user has entered
start_conversion(limit, text_in, text_out, batch) ==
    /\ convert_btn
    /\ njobs < limit
    /\ IF text_in = <<>>
       THEN UNCHANGED vars
       ELSE /\ convert_btn' = FALSE
            /\ cancel_btn' = TRUE
            /\ progress_visible' = TRUE
            /\ progress_value' = 0
            /\ thread' = TRUE
            /\ input_path' = text_in
            /\ output_path' = text_out
            /\ is_batch' = batch
            /\ cancel_requested' = FALSE
            /\ pc' = "run"
            /\ rw2_files' = <<>>
            /\ i' = 0
            /\ output_file' = NoPath
            /\ exc' = <<>>
            /\ events' = <<>>
            /\ ndelivered' = 0
            /\ calls' = <<>>
            /\ njobs' = njobs + 1
            /\ ncancels' = 0
            /\ UNCHANGED <<env, status_label>>

\* lines 233-237 with line 235 flipping the flag instead of setting it
request_cancel_toggle ==
    /\ ncancels < MaxCancels
    /\ ncancels' = ncancels + 1
    /\ IF thread /\ IsRunning
       THEN /\ cancel_requested' = ~cancel_requested
            /\ status_label' = <<"Cancelling...">>
            /\ cancel_btn' = FALSE
       ELSE UNCHANGED <<cancel_requested, status_label, cancel_btn>>
    /\ UNCHANGED <<env, convert_btn, progress_visible, progress_value, job, pc,
                   locals, events, ndelivered, calls>>

\* the slot cancel_conversion, lines 233-237, however it is invoked
request_cancel ==
    /\ ncancels < MaxCancels
    /\ ncancels' = ncancels + 1
    /\ IF thread /\ IsRunning
       THEN /\ cancel_requested' = TRUE
            /\ status_label' = <<"Cancelling...">>
            /\ cancel_btn' = FALSE
       ELSE UNCHANGED <<cancel_requested, status_label, cancel_btn>>
    /\ UNCHANGED <<env, convert_btn, progress_visible, progress_value, job, pc,
                   locals, events, ndelivered, calls>>

\* cancel_conversion, lines 233-237, on a click of the enabled Cancel button
cancel_conversion ==
    /\ cancel_btn
    /\ request_cancel

\* update_progress, lines 219-221: the next queued signal is progress_updated
update_progress ==
    /\ ndelivered < Len(events)
    /\ events[ndelivered + 1].type = "progress"
    /\ progress_value' = events[ndelivered + 1].percent
    /\ status_label' = events[ndelivered + 1].message
    /\ ndelivered' = ndelivered + 1
    /\ UNCHANGED clicks
    /\ UNCHANGED <<env, convert_btn, cancel_btn, progress_visible, job,
                   cancel_requested, pc, locals, events, calls>>

\* lines 223-230 without line 225: the Cancel button is left as it is
conversion_done_leaves_cancel ==
    /\ ndelivered < Len(events)
    /\ events[ndelivered + 1].type = "finished"
    /\ convert_btn' = TRUE
    /\ ndelivered' = ndelivered + 1
    /\ UNCHANGED clicks
    /\ UNCHANGED <<env, cancel_btn, progress_visible, progress_value, status_label,
                   job, cancel_requested, pc, locals, events, calls>>

\* conversion_done, lines 223-230: the next queued signal is conversion_finished
conversion_done ==
    /\ ndelivered < Len(events)
    /\ events[ndelivered + 1].type = "finished"
    /\ convert_btn' = TRUE
    /\ cancel_btn' = FALSE
    /\ ndelivered' = ndelivered + 1
    /\ UNCHANGED clicks
    /\ UNCHANGED <<env, progress_visible, progress_value, status_label, job,
                   cancel_requested, pc, locals, events, calls>>

(***************************************************************************)
(* The worker thread                                                        *)
(***************************************************************************)
\* a signal can be queued
Room == Len(events) - ndelivered < MaxQueue

Emit(e) == events' = Append(events, e)

\* convert_single, lines 33-45
convert_single ==
    /\ pc = "run"
    /\ ~is_batch
    /\ \E r \in {ResolveSingle(tree, input_path, output_path)} :
           IF r.ok
           THEN /\ Room
                /\ output_file' = r.path
                /\ Emit(ProgressEvent(0, MsgConverting(Name(Path(input_path)))))
                /\ pc' = "converting"
                /\ UNCHANGED exc
           ELSE /\ exc' = MsgEmptyName(Path(input_path))
                /\ pc' = "raise"
                /\ UNCHANGED <<output_file, events>>
    /\ UNCHANGED clicks
    /\ UNCHANGED <<env, gui, job, cancel_requested, rw2_files, i, ndelivered, calls>>

\* the record of one call of rw2_to_exr: its arguments, its outcome, and whether
\* cancel_requested was already set when it was made
Call(r) ==
    [input |-> IF is_batch THEN Str(rw2_files[i + 1]) ELSE Str(Path(input_path)),
     output |-> Str(output_file), ok |-> r.ok, opened |-> r.opened,
     written |-> r.written, msg |-> r.msg, cancelled |-> cancel_requested]

\* lines 46-51 without line 50: a failure is re-raised with no ProgressEvent
single_rw2_to_exr_silent ==
    /\ pc = "converting"
    /\ ~is_batch
    /\ Room
    /\ \E decodes, permitted \in BOOLEAN, encoder \in EncoderOutcomes :
          \E r \in {rw2_to_exr(tree, Str(Path(input_path)), Str(output_file),
                              decodes, permitted, encoder)} :
              /\ tree' = r.tree
              /\ calls' = Append(calls, Call(r))
              /\ IF r.ok
                 THEN /\ Emit(ProgressEvent(100, MsgConverted(output_file)))
                      /\ pc' = "return"
                      /\ UNCHANGED exc
                 ELSE /\ UNCHANGED events
                      /\ exc' = r.msg
                      /\ pc' = "raise"
    /\ UNCHANGED clicks
    /\ UNCHANGED <<case_sens, gui, job, cancel_requested, rw2_files, i,
                   output_file, ndelivered>>

\* convert_single, lines 46-51
single_rw2_to_exr ==
    /\ pc = "converting"
    /\ ~is_batch
    /\ Room
    /\ \E decodes, permitted \in BOOLEAN, encoder \in EncoderOutcomes :
          \E r \in {rw2_to_exr(tree, Str(Path(input_path)), Str(output_file),
                              decodes, permitted, encoder)} :
              /\ tree' = r.tree
              /\ calls' = Append(calls, Call(r))
              /\ IF r.ok
                 THEN /\ Emit(ProgressEvent(100, MsgConverted(output_file)))
                      /\ pc' = "return"
                      /\ UNCHANGED exc
                 ELSE /\ Emit(ProgressEvent(0, MsgError(r.msg)))
                      /\ exc' = r.msg
                      /\ pc' = "raise"
    /\ UNCHANGED clicks
    /\ UNCHANGED <<case_sens, gui, job, cancel_requested, rw2_files, i,
                   output_file, ndelivered>>

\* lines 54-63 without lines 60-61: an empty list is looped over
batch_convert_no_check ==
    /\ pc = "run"
    /\ is_batch
    /\ \E permitted \in BOOLEAN :
          \E input_dir \in {Path(input_path)},
             mk \in {MakeDirs(tree, OutputDir(input_path, output_path), permitted)} :
          \E found \in {Discover(mk.tree, input_dir, case_sens)} :
              /\ tree' = mk.tree
              /\ IF ~mk.ok
                 THEN /\ exc' = mk.err
                      /\ pc' = "raise"
                      /\ UNCHANGED rw2_files
                 ELSE /\ rw2_files' = found
                      /\ pc' = "loop"
                      /\ UNCHANGED exc
    /\ UNCHANGED clicks
    /\ UNCHANGED <<case_sens, gui, job, cancel_requested, i, output_file,
                   events, ndelivered, calls>>

\* batch_convert, lines 54-63
batch_convert ==
    /\ pc = "run"
    /\ is_batch
    /\ \E permitted \in BOOLEAN :
          \E input_dir \in {Path(input_path)},
             mk \in {MakeDirs(tree, OutputDir(input_path, output_path), permitted)} :
          \E found \in {Discover(mk.tree, input_dir, case_sens)} :
              /\ tree' = mk.tree
              /\ IF ~mk.ok
                 THEN /\ exc' = mk.err
                      /\ pc' = "raise"
                      /\ UNCHANGED rw2_files
                 ELSE IF found = <<>>
                 THEN /\ exc' = MsgNoFiles(input_dir)
                      /\ pc' = "raise"
                      /\ UNCHANGED rw2_files
                 ELSE /\ rw2_files' = found
                      /\ pc' = "loop"
                      /\ UNCHANGED exc
    /\ UNCHANGED clicks
    /\ UNCHANGED <<case_sens, gui, job, cancel_requested, i, output_file,
                   events, ndelivered, calls>>

\* the loop without lines 65-66: cancel_requested is never read
batch_iteration_no_cancel ==
    /\ pc = "loop"
    /\ IF i >= Len(rw2_files)
       THEN /\ pc' = "return"
            /\ UNCHANGED <<output_file, events>>
       ELSE /\ Room
            /\ output_file' = BatchOutput(OutputDir(input_path, output_path),
                                          rw2_files[i + 1])
            /\ Emit(ProgressEvent(Percent(i, Len(rw2_files)),
                        MsgBatch(i, Len(rw2_files), Name(rw2_files[i + 1]))))
            /\ pc' = "converting"
    /\ UNCHANGED clicks
    /\ UNCHANGED <<env, gui, job, cancel_requested, rw2_files, i, exc,
                   ndelivered, calls>>

\* lines 64-72 with the break of line 66 replaced by a wait: a cancelled loop
\* stays at its check
batch_iteration_waits ==
    /\ pc = "loop"
    /\ IF i >= Len(rw2_files)
       THEN /\ pc' = "return"
            /\ UNCHANGED <<output_file, events>>
       ELSE IF cancel_requested
       THEN UNCHANGED <<pc, output_file, events>>
       ELSE /\ Room
            /\ output_file' = BatchOutput(OutputDir(input_path, output_path),
                                          rw2_files[i + 1])
            /\ Emit(ProgressEvent(Percent(i, Len(rw2_files)),
                        MsgBatch(i, Len(rw2_files), Name(rw2_files[i + 1]))))
            /\ pc' = "converting"
    /\ UNCHANGED clicks
    /\ UNCHANGED <<env, gui, job, cancel_requested, rw2_files, i, exc,
                   ndelivered, calls>>

\* batch_convert, lines 64-72: the top of one iteration
batch_iteration ==
    /\ pc = "loop"
    /\ IF i >= Len(rw2_files) \/ cancel_requested
       THEN /\ pc' = "return"
            /\ UNCHANGED <<output_file, events>>
       ELSE /\ Room
            /\ output_file' = BatchOutput(OutputDir(input_path, output_path),
                                          rw2_files[i + 1])
            /\ Emit(ProgressEvent(Percent(i, Len(rw2_files)),
                        MsgBatch(i, Len(rw2_files), Name(rw2_files[i + 1]))))
            /\ pc' = "converting"
    /\ UNCHANGED clicks
    /\ UNCHANGED <<env, gui, job, cancel_requested, rw2_files, i, exc,
                   ndelivered, calls>>

\* line 73 with a cancellation point in front of it: a unit whose conversion
\* is about to start is given up when the flag is set
batch_rw2_to_exr_preempted ==
    /\ pc = "converting"
    /\ is_batch
    /\ IF cancel_requested
       THEN /\ pc' = "return"
            /\ UNCHANGED <<tree, calls, i, exc>>
       ELSE \E decodes, permitted \in BOOLEAN, encoder \in EncoderOutcomes :
              \E r \in {rw2_to_exr(tree, Str(rw2_files[i + 1]), Str(output_file),
                                  decodes, permitted, encoder)} :
                  /\ tree' = r.tree
                  /\ calls' = Append(calls, Call(r))
                  /\ IF r.ok
                     THEN /\ i' = i + 1
                          /\ pc' = "loop"
                          /\ UNCHANGED exc
                     ELSE /\ exc' = r.msg
                          /\ pc' = "raise"
                          /\ UNCHANGED i
    /\ UNCHANGED clicks
    /\ UNCHANGED <<case_sens, gui, job, cancel_requested, rw2_files, output_file,
                   events, ndelivered>>

\* batch_convert, line 73
batch_rw2_to_exr ==
    /\ pc = "converting"
    /\ is_batch
    /\ \E decodes, permitted \in BOOLEAN, encoder \in EncoderOutcomes :
          \E r \in {rw2_to_exr(tree, Str(rw2_files[i + 1]), Str(output_file),
                              decodes, permitted, encoder)} :
              /\ tree' = r.tree
              /\ calls' = Append(calls, Call(r))
              /\ IF r.ok
                 THEN /\ i' = i + 1
                      /\ pc' = "loop"
                      /\ UNCHANGED exc
                 ELSE /\ exc' = r.msg
                      /\ pc' = "raise"
                      /\ UNCHANGED i
    /\ UNCHANGED clicks
    /\ UNCHANGED <<case_sens, gui, job, cancel_requested, rw2_files, output_file,
                   events, ndelivered>>

\* run without its except clause: a failure ends the thread with no signal
run_finish_uncaught ==
    /\ pc \in {"return", "raise"}
    /\ Room
    /\ IF pc = "return"
       THEN Emit(CompletionEvent(TRUE, MsgCompleted))
       ELSE UNCHANGED events
    /\ pc' = "finished"
    /\ UNCHANGED clicks
    /\ UNCHANGED <<env, gui, job, cancel_requested, locals, ndelivered, calls>>

\* run, lines 28 and 30
run_finish ==
    /\ pc \in {"return", "raise"}
    /\ Room
    /\ IF pc = "return"
       THEN Emit(CompletionEvent(TRUE, MsgCompleted))
       ELSE Emit(CompletionEvent(FALSE, MsgError(exc)))
    /\ pc' = "finished"
    /\ UNCHANGED clicks
    /\ UNCHANGED <<env, gui, job, cancel_requested, locals, ndelivered, calls>>

\* run has returned: the thread is no longer running
thread_exit ==
    /\ pc = "finished"
    /\ pc' = "done"
    /\ UNCHANGED clicks
    /\ UNCHANGED <<env, gui, job, cancel_requested, locals, events, ndelivered, calls>>

Worker ==
    \/ convert_single
    \/ single_rw2_to_exr
    \/ batch_convert
    \/ batch_iteration
    \/ batch_rw2_to_exr
    \/ run_finish
    \/ thread_exit

Handlers ==
    \/ cancel_conversion
    \/ update_progress
    \/ conversion_done

Next ==
    \/ \E text_in \in InputTexts, text_out \in OutputTexts, batch \in BOOLEAN :
          start_conversion(1, text_in, text_out, batch)
    \/ Handlers
    \/ Worker

NextLong ==
    \/ \E batch \in BOOLEAN : start_conversion(1, D_IN, <<>>, batch)
    \/ Handlers
    \/ Worker

\* several jobs one after the other, driven through the window
NextJobs ==
    \/ \E text_in \in JobTexts, batch \in BOOLEAN :
          start_conversion(MaxJobs, text_in, <<>>, batch)
    \/ Handlers
    \/ Worker

\* the same, with the slot cancel_conversion also invoked directly
NextCancel ==
    \/ NextJobs
    \/ request_cancel

Spec == Init /\ [][Next]_vars

SpecJobs == Init /\ [][NextJobs]_vars

SpecCancel == Init /\ [][NextCancel]_vars

\* the worker thread is scheduled, every call of the decoder and the encoder
\* returns (a call is one step), and the GUI thread's event loop handles the
\* signals queued for it
Fairness ==
    /\ WF_vars(Worker)
    /\ WF_vars(update_progress)
    /\ WF_vars(conversion_done)

SpecLive == Init /\ [][Next]_vars /\ Fairness

SpecLong == InitLong /\ [][NextLong]_vars

(***************************************************************************)
(* What the claims speak of                                                 *)
(***************************************************************************)
IsProgress(e) == e.type = "progress"

IsFinished(e) == e.type = "finished"

\* the ProgressEvents and the CompletionEvents the worker has emitted
Progress == SelectSeq(events, IsProgress)

Completions == SelectSeq(events, IsFinished)

\* run() has emitted its last signal
JobOver == pc \in {"finished", "done"}

LastEvent == events[Len(events)]

\* the events the subscriber has received, in the order it received them
Received == SubSeq(events, 1, ndelivered)

AllCallsOk == \A k \in 1..Len(calls) : calls[k].ok

(***************************************************************************)
(* C1: every started job, whatever its outcome, emits exactly one          *)
(* CompletionEvent, and it is the last event of the job: once run() is over *)
(* the log holds one CompletionEvent, at its end, and before that it holds  *)
(* none; the subscriber has received a prefix of the log, in emission order.*)
(***************************************************************************)
C1_OneCompletionLast ==
    /\ thread /\ JobOver =>
          /\ Len(Completions) = 1
          /\ IsFinished(LastEvent)
          /\ \A k \in 1..(Len(events) - 1) : IsProgress(events[k])
    /\ ~JobOver => Len(Completions) = 0
    /\ ndelivered <= Len(events)
    /\ \A k \in 1..ndelivered : Received[k] = events[k]

\* a batch that failed at its second unit has ended and all was delivered
C1_Witness ==
    /\ pc = "done"
    /\ is_batch
    /\ Len(calls) = 2
    /\ ~calls[2].ok
    /\ ndelivered = Len(events)
    /\ Len(events) = 3

(***************************************************************************)
(* C2: the CompletionEvent has succeeded=true, with the success message,    *)
(* exactly when no step of the job raised; a batch stopped by cancellation  *)
(* with no failed unit succeeds; a failure gives succeeded=false and        *)
(* "Error: " followed by the error text of the failing step.                *)
(***************************************************************************)
C2_SuccessIffNoFailure ==
    thread /\ JobOver =>
        /\ LastEvent.success <=> exc = <<>>
        /\ exc = <<>> => AllCallsOk
        /\ LastEvent.success => LastEvent.message = MsgCompleted
        /\ ~LastEvent.success => LastEvent.message = <<"Error: ">> \o exc
        /\ calls # <<>> /\ ~calls[Len(calls)].ok => exc = calls[Len(calls)].msg
        /\ is_batch /\ rw2_files # <<>> /\ AllCallsOk => LastEvent.success

\* a batch stopped by cancellation after one unit, before its second
C2_Witness ==
    /\ JobOver
    /\ is_batch
    /\ cancel_requested
    /\ Len(rw2_files) = 2
    /\ Len(calls) = 1
    /\ LastEvent.success

(***************************************************************************)
(* C3: a batch of n >= 1 discovered files that runs through all its units   *)
(* emits exactly n ProgressEvents, then one successful CompletionEvent, and *)
(* the last percent is 100.  As claimed, the percents are strictly          *)
(* increasing (C3_StrictlyIncreasing); as amended, they are non-decreasing, *)
(* and strictly increasing when n < 100 (C3_NonDecreasing).                 *)
(***************************************************************************)
BatchCompleted ==
    /\ is_batch
    /\ JobOver
    /\ rw2_files # <<>>
    /\ i = Len(rw2_files)

NonDecreasing(q) == \A k \in 1..(Len(q) - 1) : q[k].percent <= q[k + 1].percent

StrictlyIncreasing(q) == \A k \in 1..(Len(q) - 1) : q[k].percent < q[k + 1].percent

C4_CancelStopsBeforeUnit ==
    /\ [](is_batch /\ pc = "loop" =>
            /\ Len(Progress) = i
            /\ Len(calls) = i
            /\ AllCallsOk)
    /\ [][is_batch /\ pc = "loop" /\ cancel_requested =>
            /\ pc' \in {"loop", "return"}
            /\ events' = events
            /\ calls' = calls]_vars
    /\ [][is_batch /\ pc = "return" =>
            /\ pc' \in {"return", "finished"}
            /\ calls' = calls
            /\ pc' = "return" => events' = events
            /\ pc' = "finished" =>
                  events' = Append(events, CompletionEvent(TRUE, MsgCompleted))]_vars

\* cancellation before the first unit: no ProgressEvent, no call, success
C4_Witness ==
    /\ is_batch
    /\ JobOver
    /\ cancel_requested
    /\ Len(rw2_files) >= 2
    /\ calls = <<>>
    /\ events = <<CompletionEvent(TRUE, MsgCompleted)>>

(***************************************************************************)
(* C5: when the conversion of unit k of a batch fails, units 1..k-1 having  *)
(* succeeded, exactly k ProgressEvents were emitted, the last announcing    *)
(* unit k, and the CompletionEvent has succeeded=false and a message that   *)
(* contains the file name of unit k.                                        *)
(***************************************************************************)
C5_FailureAtUnit ==
    is_batch /\ JobOver /\ calls # <<>> /\ ~calls[Len(calls)].ok =>
        LET k == Len(calls)
        IN  /\ \A j \in 1..(k - 1) : calls[j].ok
            /\ calls[k].input = Str(rw2_files[k])
            /\ Len(Progress) = k
            /\ Progress[k].message =
                  <<"Converting ">> \o IntToStr(k) \o <<"/">>
                      \o IntToStr(Len(rw2_files)) \o <<": ">> \o Name(rw2_files[k])
            /\ ~LastEvent.success
            /\ Contains(LastEvent.message, Name(rw2_files[k]))

\* the second unit of a batch failed after the first succeeded
C5_Witness ==
    /\ is_batch
    /\ JobOver
    /\ Len(calls) = 2
    /\ calls[1].ok
    /\ ~calls[2].ok
    /\ ~cancel_requested

(***************************************************************************)
(* C6: a batch job whose input directory holds no raw file emits no         *)
(* ProgressEvent, never calls rw2_to_exr, and ends with a failed            *)
(* CompletionEvent.  As claimed, that event always carries the "no files"   *)
(* error (C6_AlwaysNoInputFiles); as amended, it carries it when the output *)
(* directory exists or could be created, and the error of mkdir otherwise   *)
(* (C6_NoInputFilesOrMkdir).                                                *)
(***************************************************************************)
RAW_EXT == <<".", "r", "w", "2">>

\* the suffix of the name is the raw extension, whatever its case
HasRawExtension(name) ==
    LET suffix == Suffix(name)
    IN  [k \in 1..Len(suffix) |-> Lower(suffix[k])] = RAW_EXT

\* the raw files that lie directly inside dir
RawFilesIn(t, dir) ==
    {t[k].path : k \in {j \in 1..Len(t) : /\ ~t[j].is_dir
                                          /\ t[j].path.parts # <<>>
                                          /\ Parent(t[j].path) = dir
                                          /\ HasRawExtension(Name(t[j].path))}}

NoRawInput ==
    /\ is_batch
    /\ JobOver
    /\ IsDir(tree, Path(input_path))
    /\ RawFilesIn(tree, Path(input_path)) = {}

NoInputFilesEvent ==
    CompletionEvent(FALSE, <<"Error: ", "No RW2 files found in ">> \o Str(Path(input_path)))

MkdirErrors ==
    {<<"Error: ", errno, ": '">> \o Str(OutputDir(input_path, output_path)) \o <<"'">> :
        errno \in {"[Errno 17] File exists", "[Errno 20] Not a directory",
                   "[Errno 13] Permission denied"}}

C6_AlwaysNoInputFiles ==
    NoRawInput => /\ calls = <<>>
                  /\ events = <<NoInputFilesEvent>>

C6_NoInputFilesOrMkdir ==
    NoRawInput =>
        /\ calls = <<>>
        /\ Len(events) = 1
        /\ IsFinished(events[1])
        /\ ~events[1].success
        /\ IF IsDir(tree, OutputDir(input_path, output_path))
           THEN events[1] = NoInputFilesEvent
           ELSE events[1].message \in MkdirErrors

\* the output directory was missing and has been created; nothing to convert
C6_Witness ==
    /\ NoRawInput
    /\ output_path = D_NEW
    /\ IsDir(tree, Path(D_NEW))
    /\ events = <<NoInputFilesEvent>>

(***************************************************************************)
(* C7: a single-mode job emits ProgressEvent(0, "Converting <name>...")      *)
(* before it calls rw2_to_exr, calls it at most once, and once it has called *)
(* it the events are that one, then ProgressEvent(100, "Successfully         *)
(* converted to <output>") and a successful CompletionEvent, or              *)
(* ProgressEvent(0, "Error: <message>") and a failed CompletionEvent.        *)
(***************************************************************************)
ConvertingEvent ==
    ProgressEvent(0, <<"Converting ">> \o Name(Path(input_path)) \o <<"...">>)

C7_SingleSequence ==
    thread /\ ~is_batch =>
        /\ Len(calls) <= 1
        /\ pc = "converting" => events = <<ConvertingEvent>> /\ calls = <<>>
        /\ calls # <<>> => events[1] = ConvertingEvent
        /\ calls # <<>> /\ pc \in {"return", "raise"} => Len(events) = 2
        /\ calls # <<>> /\ JobOver =>
              IF calls[1].ok
              THEN events = <<ConvertingEvent,
                              ProgressEvent(100, <<"Successfully converted to ">>
                                                     \o calls[1].output),
                              CompletionEvent(TRUE, MsgCompleted)>>
              ELSE events = <<ConvertingEvent,
                              ProgressEvent(0, <<"Error: ">> \o calls[1].msg),
                              CompletionEvent(FALSE, <<"Error: ">> \o calls[1].msg)>>

\* a single file was converted into an existing output directory
C7_Witness ==
    /\ ~is_batch
    /\ JobOver
    /\ Len(calls) = 1
    /\ calls[1].ok
    /\ output_path = D_OUT

(***************************************************************************)
(* C8: the output of a single-mode job is (1) with no output given, the     *)
(* input's directory joined with input.stem + '.exr'; (2) with an existing  *)
(* directory given, that directory joined with input.stem + '.exr'; (3)     *)
(* with any other path given, that path.  As claimed this holds for every   *)
(* input path (C8_EveryInput); as amended, (1) holds for an input whose     *)
(* name is not empty, and an input with an empty name ('.', '/') and no      *)
(* output raises before any event or call (C8_NamedInput).                  *)
(***************************************************************************)
ExpectedOutput ==
    LET input_file == Path(input_path)
        derived    == Stem(Name(input_file)) \o EXR
    IN  IF output_path = <<>> THEN Child(Parent(input_file), derived)
        ELSE IF IsDir(tree, Path(output_path)) THEN Child(Path(output_path), derived)
        ELSE Path(output_path)

\* the job failed before it called rw2_to_exr
RaisedInResolution == pc = "raise" /\ calls = <<>>

C8_EveryInput ==
    thread /\ ~is_batch =>
        /\ pc = "converting" => output_file = ExpectedOutput
        /\ ~RaisedInResolution

C8_NamedInput ==
    thread /\ ~is_batch =>
        /\ pc = "converting" => output_file = ExpectedOutput
        /\ pc = "converting" /\ output_path = <<>> => Name(Path(input_path)) # <<>>
        /\ RaisedInResolution =>
              /\ output_path = <<>>
              /\ Name(Path(input_path)) = <<>>
              /\ events = <<>>

\* an existing directory was given: the output is resolved inside it
C8_Witness ==
    /\ ~is_batch
    /\ pc = "converting"
    /\ input_path = F_UPPER
    /\ output_path = D_OUT
    /\ output_file = Path(D_OUT \o <<"/", "a", ".", "e", "x", "r">>)

(***************************************************************************)
(* C9: in single mode, an explicit output path that ends in '.exr' is the   *)
(* output rw2_to_exr is called with.  As claimed, whatever exists at that   *)
(* path (C9_AlwaysLiteral); as amended, unless the path names an existing   *)
(* directory, and then the output is that directory joined with             *)
(* input.stem + '.exr' (C9_LiteralUnlessDirectory).                         *)
(***************************************************************************)
EndsWith(s, tail) ==
    Len(s) >= Len(tail) /\ SubSeq(s, Len(s) - Len(tail) + 1, Len(s)) = tail

ExplicitExrOutput ==
    /\ thread
    /\ ~is_batch
    /\ calls # <<>>
    /\ EndsWith(output_path, EXR)

C9_AlwaysLiteral == ExplicitExrOutput => Path(calls[1].output) = Path(output_path)

C9_LiteralUnlessDirectory ==
    ExplicitExrOutput =>
        IF IsDir(tree, Path(output_path))
        THEN Path(calls[1].output)
                = Child(Path(output_path), Stem(Name(Path(input_path))) \o EXR)
        ELSE Path(calls[1].output) = Path(output_path)

\* a file was written to an explicit '.exr' path in a directory made for it
C9_Witness ==
    /\ ExplicitExrOutput
    /\ output_path = F_NEWOUT
    /\ calls[1].ok
    /\ calls[1].output = F_NEWOUT
    /\ IsFile(tree, Path(F_NEWOUT))

(***************************************************************************)
(* C10: batch discovery returns exactly the raw files directly inside the   *)
(* input directory (extension '.rw2' in any case), each exactly once.       *)
(***************************************************************************)
C10_ExactDiscovery ==
    /\ is_batch /\ pc = "loop" /\ i = 0 =>
          /\ \A a, b \in 1..Len(rw2_files) : a # b => rw2_files[a] # rw2_files[b]
          /\ {rw2_files[k] : k \in 1..Len(rw2_files)}
                = RawFilesIn(tree, Path(input_path))
    /\ is_batch /\ RaisedInResolution /\ IsDir(tree, OutputDir(input_path, output_path)) =>
          RawFilesIn(tree, Path(input_path)) = {}

(***************************************************************************)
(* C11: cancel_conversion is idempotent and does nothing to a finished job: *)
(* an invocation that finds the flag set leaves the flag set and changes    *)
(* nothing the worker reads or writes; an invocation after the job's        *)
(* CompletionEvent changes neither the job's events nor its calls nor the   *)
(* files; and a job started later begins with the flag clear, an empty log  *)
(* and no call, whatever was requested before.                              *)
(***************************************************************************)
\* what the worker reads or writes, the flag apart
WorkerState == <<env, job, pc, locals, events, calls>>

C11_CancelIdempotent ==
    /\ [][ncancels' = ncancels + 1 /\ cancel_requested =>
            cancel_requested' /\ UNCHANGED WorkerState]_vars
    /\ [][ncancels' = ncancels + 1 /\ JobOver => UNCHANGED WorkerState]_vars
    /\ [][ncancels' = ncancels + 1 /\ ~IsRunning =>
            UNCHANGED <<WorkerState, cancel_requested, gui>>]_vars
    /\ [][njobs' = njobs + 1 =>
            /\ ~cancel_requested'
            /\ events' = <<>>
            /\ calls' = <<>>
            /\ pc' = "run"
            /\ UNCHANGED env]_vars

\* the second job was cancelled twice and stopped after its first unit
C11_Witness ==
    /\ njobs = 2
    /\ ncancels = 2
    /\ cancel_requested
    /\ is_batch
    /\ JobOver
    /\ Len(rw2_files) = 2
    /\ Len(calls) = 1
    /\ LastEvent.success

(***************************************************************************)
(* C12: a batch is fail-fast without rollback: when the job is over and its *)
(* last call failed, every earlier call succeeded (no unit after the        *)
(* failing one was passed to rw2_to_exr), and the output of each earlier    *)
(* call still exists and was not opened again by a later call.              *)
(***************************************************************************)
\* a batch job that ended with the failure of a unit
FailedAtUnit ==
    /\ is_batch
    /\ JobOver
    /\ calls # <<>>
    /\ ~calls[Len(calls)].ok

\* the file call j wrote was created or truncated again by a later call
Rewritten(j) ==
    \E m \in (j + 1)..Len(calls) :
        calls[m].opened /\ Path(calls[m].output) = Path(calls[j].output)

C12_FailFastNoRollback ==
    FailedAtUnit =>
        \A j \in 1..(Len(calls) - 1) :
            /\ calls[j].ok
            /\ IsFile(tree, Path(calls[j].output))
            /\ ~Rewritten(j)

(***************************************************************************)
(* C13: a batch job whose input path is no directory (a regular file, or    *)
(* nothing) emits no ProgressEvent, calls rw2_to_exr never, and ends with a *)
(* failed CompletionEvent whose error is neither the "no files" error nor   *)
(* an error of creating the output directory.                               *)
(***************************************************************************)
\* the job is over and its input path is still no directory, so it was none
\* when the job started
InputNotDirectory ==
    /\ is_batch
    /\ JobOver
    /\ ~IsDir(tree, Path(input_path))

C13_InvalidTarget ==
    InputNotDirectory =>
        /\ calls = <<>>
        /\ Len(events) = 1
        /\ IsFinished(events[1])
        /\ ~events[1].success
        /\ events[1] # NoInputFilesEvent
        /\ events[1].message \notin MkdirErrors

(***************************************************************************)
(* C14: cancellation is not preemptive.  A unit whose ProgressEvent has     *)
(* been emitted is passed to rw2_to_exr even when cancel_requested is set   *)
(* meanwhile, and runs to its own success (its output is written and the    *)
(* loop goes on to its next check) or failure; a unit begins only when the  *)
(* flag is clear at the check before it; and a single-mode job whose flag   *)
(* was set ends with the event sequence its resolution and its one call     *)
(* determine.                                                               *)
(***************************************************************************)
LastCall == calls[Len(calls)]

C14_NonPreemptive ==
    /\ [][pc = "converting" /\ cancel_requested /\ pc' # pc =>
            /\ Len(calls') = Len(calls) + 1
            /\ is_batch => UNCHANGED events
            /\ LET c == calls'[Len(calls')]
               IN  /\ c.cancelled
                   /\ c.ok => /\ IsFile(tree', Path(c.output))
                              /\ pc' = IF is_batch THEN "loop" ELSE "return"
                              /\ is_batch => i' = i + 1
                   /\ ~c.ok => pc' = "raise" /\ exc' = c.msg]_vars
    /\ [][is_batch /\ pc = "loop" /\ pc' = "converting" => ~cancel_requested]_vars
    /\ [](thread /\ ~is_batch /\ JobOver /\ cancel_requested =>
            IF calls = <<>>
            THEN events = <<CompletionEvent(FALSE, <<"Error: ">> \o exc)>>
            ELSE IF calls[1].ok
            THEN events = <<ConvertingEvent,
                            ProgressEvent(100, <<"Successfully converted to ">>
                                                   \o calls[1].output),
                            CompletionEvent(TRUE, MsgCompleted)>>
            ELSE events = <<ConvertingEvent,
                            ProgressEvent(0, <<"Error: ">> \o calls[1].msg),
                            CompletionEvent(FALSE, <<"Error: ">> \o calls[1].msg)>>)

\* cancel was requested while the first of two units was being converted: the
\* unit was converted and written, the second never began
C14_Witness ==
    /\ is_batch
    /\ JobOver
    /\ Len(rw2_files) = 2
    /\ Len(calls) = 1
    /\ calls[1].cancelled
    /\ calls[1].ok
    /\ IsFile(tree, Path(calls[1].output))
    /\ LastEvent.success

(***************************************************************************)
(* C15: in a batch of n units the percent of the ProgressEvent of unit i    *)
(* (from 0) is floor((i+1)*100/n), lies in 0..100, does not decrease with   *)
(* i, and is 100 for the last unit and for no other.                        *)
(***************************************************************************)
C15_ExactFloor ==
    is_batch /\ rw2_files # <<>> =>
        LET n == Len(rw2_files)
        IN  /\ \A k \in 1..Len(Progress) :
                  /\ Progress[k].percent = (k * 100) \div n
                  /\ Progress[k].percent \in 0..100
                  /\ Progress[k].percent = 100 <=> k = n
            /\ NonDecreasing(Progress)

(***************************************************************************)
(* C16: rw2_to_exr fails at the step that ensures the directory of its      *)
(* output only when that directory does not exist and could not be created  *)
(* (a path with no directory component lies in the current directory,       *)
(* which exists), and then the encoder has not opened the output.           *)
(***************************************************************************)
\* the call failed with an OSError of os.makedirs, line 93
FailedAtMakedirs(c) ==
    /\ ~c.ok
    /\ \E errno \in {"[Errno 2] No such file or directory", "[Errno 13] Permission denied",
                      "[Errno 17] File exists", "[Errno 20] Not a directory"} :
          c.msg = MsgFailed(c.input, MsgOSError(errno, Dirname(c.output)))

C16_DirectoryEnsured ==
    thread /\ pc = "raise" /\ calls # <<>> /\ FailedAtMakedirs(LastCall) =>
        /\ ~IsDir(tree, Path(Dirname(LastCall.output)))
        /\ ~LastCall.opened

(***************************************************************************)
(* C17: under fair scheduling of the worker, every started job eventually   *)
(* has emitted its CompletionEvent and its thread has left run(), whether   *)
(* or not cancellation is requested.                                        *)
(***************************************************************************)
C17_EventuallyFinished ==
    (thread /\ pc = "run") ~> (pc = "done" /\ IsFinished(LastEvent))

\* a batch of four units ran through and every signal was handled
C17_Witness ==
    /\ pc = "done"
    /\ is_batch
    /\ Len(calls) = 4
    /\ AllCallsOk
    /\ IsFinished(LastEvent)
    /\ ndelivered = Len(events)

(***************************************************************************)
(* C18: the cancellation flag belongs to one job and only rises: a job      *)
(* starts with the flag clear; within a job a set flag stays set; the step  *)
(* that sets it is an invocation of cancel_conversion, never a step of the  *)
(* worker; and a batch for which cancel_conversion was not invoked leaves   *)
(* its loop only with every unit converted or with a failure, whatever was  *)
(* requested for the job before it.                                         *)
(***************************************************************************)
C18_FlagPerJob ==
    /\ [][njobs' = njobs + 1 => ~cancel_requested']_vars
    /\ [][njobs' = njobs /\ cancel_requested => cancel_requested']_vars
    /\ [][cancel_requested' # cancel_requested /\ njobs' = njobs =>
            /\ ncancels' = ncancels + 1
            /\ UNCHANGED <<pc, locals, events, calls, env>>]_vars
    /\ [](ncancels = 0 => ~cancel_requested)
    /\ [](is_batch /\ ncancels = 0 /\ exc = <<>>
             /\ pc \in {"return", "finished", "done"} =>
                /\ i = Len(rw2_files)
                /\ Len(calls) = Len(rw2_files))

\* the second job converted both its units; the label still shows that the
\* first job was cancelled, and no signal of the second has been handled yet
C18_Witness ==
    /\ njobs = 2
    /\ ncancels = 0
    /\ status_label = <<"Cancelling...">>
    /\ ndelivered = 0
    /\ is_batch
    /\ JobOver
    /\ Len(rw2_files) = 2
    /\ Len(calls) = 2
    /\ AllCallsOk

(***************************************************************************)
(* C19: driven through the window, at most one job is in flight (started,   *)
(* its conversion_finished not yet handled by conversion_done): the Convert *)
(* button is enabled exactly when no job is in flight, so a job starts only *)
(* then, and the Cancel button is enabled only while a job is in flight and *)
(* its cancellation has not been requested.                                 *)
(***************************************************************************)
InFlight ==
    /\ thread
    /\ ~(/\ events # <<>>
          /\ IsFinished(LastEvent)
          /\ ndelivered = Len(events))

C19_OneJobInFlight ==
    /\ [](convert_btn <=> ~InFlight)
    /\ [](cancel_btn => InFlight /\ ~cancel_requested)
    /\ [][njobs' = njobs + 1 => ~InFlight /\ InFlight']_vars

\* the second job is converting: Convert is disabled, Cancel is enabled
C19_Witness ==
    /\ njobs = 2
    /\ InFlight
    /\ pc = "converting"
    /\ ~convert_btn
    /\ cancel_btn
    /\ ~cancel_requested

(***************************************************************************)
(* C20: within one batch job the mapping from a discovered raw file to its  *)
(* output file (line 68) is injective: two units for different raw files    *)
(* never have the same output file.                                         *)
(***************************************************************************)
UnitOutput(k) == BatchOutput(OutputDir(input_path, output_path), rw2_files[k])

C20_OutputsInjective ==
    is_batch /\ pc \in {"loop", "converting"} =>
        \A k, l \in 1..Len(rw2_files) :
            rw2_files[k] # rw2_files[l] => UnitOutput(k) # UnitOutput(l)

====
